---------------------------- MODULE Spec2Model ----------------------------
(***************************************************************************)
(* Model of app/services/kiro_service.py: KiroService, a proxy that        *)
(* resolves a per-user plugin API key and forwards each public operation   *)
(* to the plugin API, as one JSON request/response or as a byte stream.    *)
(*                                                                         *)
(* A call is one invocation of a public method.  Its local variables       *)
(* (key_record, api_key, the response, the generator's position) are the   *)
(* fields of call[c]; the credential table is store.  Python's None is     *)
(* the empty sequence and a present value v is <<v>>.                      *)
(***************************************************************************)
EXTENDS Integers, Sequences, FiniteSets, TLC

VARIABLES store, call

vars == <<store, call>>

None == <<>>
Some(v) == <<v>>

(***************************************************************************)
(* Bounds of the model.                                                    *)
(***************************************************************************)
\* longest byte stream the upstream delivers
MaxChunks == 3

\* the invocations of the service that may overlap
Calls == {1, 2}
\* a caller acting alone
SingleCall == {1}

Users == {1, 2}
\* encrypted blobs a user's credential record may hold (two per user, so
\* that a key can be rotated)
BlobsOf(u) == {10 * u + 1, 10 * u + 2}
Blobs == UNION {BlobsOf(u) : u \in Users}

\* HTTP statuses the upstream answers with
Statuses == {200, 302, 404, 500}
\* response bodies the upstream answers with
Bodies == {"{\"error\":\"not found\"}", "{\"data\":[\"kiro-x\"]}", "<html>"}
\* byte chunks of a streamed body
Chunks == {"a", "b"}
\* values a caller passes for limit / offset / start_date / end_date
Limits == {None, Some(0), Some(10)}
Offsets == {None, Some(0)}
Dates == {None, Some(""), Some("2025-01-01")}

(***************************************************************************)
(* Collaborators: the credential table and the cipher.                     *)
(***************************************************************************)
\* PluginAPIKey rows: the owner, the encrypted key, the active flag
Records == [user_id : Users, api_key : Blobs, is_active : BOOLEAN]
RecordsOf(u) == {r \in Records : r.user_id = u /\ r.api_key \in BlobsOf(u)}

\* PluginAPIKeyRepository.get_by_user_id: the user's row, or None
get_by_user_id(u) == store[u]

\* decrypt_api_key: the plaintext key of an encrypted blob
decrypt_api_key(blob) == "sk-" \o ToString(blob)

(***************************************************************************)
(* The public operation catalogue: each method's verb, path and body.      *)
(***************************************************************************)
base_url == "http://plugin"
account_id == "acc-1"
oauth_state == "st-1"

\* the methods that call _proxy_request
RequestOperations ==
    {"get_oauth_authorize_url", "get_oauth_status", "create_account",
     "get_accounts", "get_account", "update_account_status",
     "update_account_name", "get_account_balance", "get_account_consumption",
     "get_user_consumption_stats", "delete_account", "get_models",
     "chat_completions"}
\* the method that calls _proxy_stream_request
StreamOperations == {"chat_completions_stream"}
Operations == RequestOperations \cup StreamOperations

Method(op) ==
    CASE op \in {"get_oauth_authorize_url", "create_account", "chat_completions",
                 "chat_completions_stream"} -> "POST"
      [] op \in {"update_account_status", "update_account_name"} -> "PUT"
      [] op = "delete_account" -> "DELETE"
      [] OTHER -> "GET"

Path(op) ==
    CASE op = "get_oauth_authorize_url" -> "/api/kiro/oauth/authorize"
      [] op = "get_oauth_status" -> "/api/kiro/oauth/status/" \o oauth_state
      [] op \in {"create_account", "get_accounts"} -> "/api/kiro/accounts"
      [] op \in {"get_account", "delete_account"} ->
             "/api/kiro/accounts/" \o account_id
      [] op = "update_account_status" ->
             "/api/kiro/accounts/" \o account_id \o "/status"
      [] op = "update_account_name" ->
             "/api/kiro/accounts/" \o account_id \o "/name"
      [] op = "get_account_balance" ->
             "/api/kiro/accounts/" \o account_id \o "/balance"
      [] op = "get_account_consumption" ->
             "/api/kiro/accounts/" \o account_id \o "/consumption"
      [] op = "get_user_consumption_stats" -> "/api/kiro/consumption/stats"
      [] op = "get_models" -> "/v1/kiro/models"
      [] OTHER -> "/v1/kiro/chat/completions"

\* json_data: the keys of the body the method builds, or the caller's payload
JsonData(op) ==
    CASE op = "get_oauth_authorize_url" -> Some(<<"provider", "is_shared">>)
      [] op = "create_account" -> Some(<<"account_data">>)
      [] op = "update_account_status" -> Some(<<"status">>)
      [] op = "update_account_name" -> Some(<<"account_name">>)
      [] op \in {"chat_completions", "chat_completions_stream"} ->
             Some(<<"request_data">>)
      [] OTHER -> None

SUPPORTED_MODELS ==
    <<"claude-sonnet-4-5", "claude-sonnet-4-5-20250929",
      "claude-sonnet-4-20250514", "claude-opus-4-5-20251101",
      "claude-haiku-4-5-20251001">>

(***************************************************************************)
(* Query parameters.  A query is a mapping from each key to None (the key  *)
(* is absent) or to the value sent.                                        *)
(***************************************************************************)
QueryKeys == {"limit", "offset", "start_date", "end_date"}
NoQuery == [k \in QueryKeys |-> None]

\* Python's "x is not None"
IsNotNone(x) == x # None
\* Python's truth value of an Optional[str]
Truthy(x) == x # None /\ x[1] # ""

\* a limit tested for truth instead of "is not None"
ConsumptionParamsTruthyLimit(limit, offset, start_date, end_date) ==
    [k \in QueryKeys |->
        CASE k = "limit" -> IF limit # None /\ limit[1] # 0 THEN limit ELSE None
          [] k = "offset" -> IF IsNotNone(offset) THEN offset ELSE None
          [] k = "start_date" -> IF Truthy(start_date) THEN start_date ELSE None
          [] OTHER -> IF Truthy(end_date) THEN end_date ELSE None]

\* get_account_consumption: params = {} and the four conditional stores
ConsumptionParams(limit, offset, start_date, end_date) ==
    [k \in QueryKeys |->
        CASE k = "limit" -> IF IsNotNone(limit) THEN limit ELSE None
          [] k = "offset" -> IF IsNotNone(offset) THEN offset ELSE None
          [] k = "start_date" -> IF Truthy(start_date) THEN start_date ELSE None
          [] OTHER -> IF Truthy(end_date) THEN end_date ELSE None]

\* get_user_consumption_stats: params = {} and the two conditional stores
StatsParams(start_date, end_date) ==
    [k \in QueryKeys |->
        CASE k = "start_date" -> IF Truthy(start_date) THEN start_date ELSE None
          [] k = "end_date" -> IF Truthy(end_date) THEN end_date ELSE None
          [] OTHER -> None]

\* the params argument the method hands to _proxy_request
Params(op, limit, offset, start_date, end_date) ==
    CASE op = "get_account_consumption" ->
             ConsumptionParams(limit, offset, start_date, end_date)
      [] op = "get_user_consumption_stats" -> StatsParams(start_date, end_date)
      [] OTHER -> NoQuery

\* the arguments a caller can pass to the method
ArgsOf(op) ==
    CASE op = "get_account_consumption" ->
             [limit : Limits, offset : Offsets, start_date : Dates, end_date : Dates]
      [] op = "get_user_consumption_stats" ->
             [limit : {None}, offset : {None}, start_date : Dates, end_date : Dates]
      [] OTHER ->
             [limit : {None}, offset : {None}, start_date : {None}, end_date : {None}]

(***************************************************************************)
(* Responses.                                                              *)
(***************************************************************************)
\* httpx Response.is_success
is_success(status) == 200 <= status /\ status <= 299

\* response.json(): the document of a JSON text (a sequence of
\* <<key, values>> members), None when the text is not JSON
json(body) ==
    CASE body = "{\"error\":\"not found\"}" -> Some(<< <<"error", <<"not found">> >> >>)
      [] body = "{\"data\":[\"kiro-x\"]}" -> Some(<< <<"data", <<"kiro-x">> >> >>)
      [] OTHER -> None

NoError == [kind |-> "", status |-> 0, body |-> ""]
ValueError == [kind |-> "ValueError", status |-> 0, body |-> ""]
TransportError == [kind |-> "TransportError", status |-> 0, body |-> ""]
CancelledError == [kind |-> "CancelledError", status |-> 0, body |-> ""]
JSONDecodeError == [kind |-> "JSONDecodeError", status |-> 0, body |-> ""]
\* httpx.HTTPStatusError(response=...)
HTTPStatusError(response) ==
    [kind |-> "HTTPStatusError", status |-> response.status, body |-> response.body]

(***************************************************************************)
(* State.  call[c] holds one invocation: the method and its arguments,     *)
(* the locals of _get_user_plugin_key / _proxy_request /                   *)
(* _proxy_stream_request, what went out and came back over HTTP, and what  *)
(* the caller got.                                                         *)
(*   pc         where the coroutine or generator stands                    *)
(*   key_record the row the lookup returned (None before it and when       *)
(*              there is no row); looked says whether the lookup ran       *)
(*   nreq       outbound HTTP requests issued by this call                 *)
(*   request    the last outbound request                                  *)
(*   response   the status line and body received                          *)
(*   conn       the streaming connection: "none", "open", "closed"         *)
(*   arrived    the chunks response.aiter_bytes() produced                 *)
(*   delivered  the chunks the caller's iteration received                 *)
(***************************************************************************)
IdleCall ==
    [pc |-> "idle", op |-> "", user |-> 0,
     args |-> [limit |-> None, offset |-> None, start_date |-> None, end_date |-> None],
     looked |-> FALSE, key_record |-> None, api_key |-> "",
     nreq |-> 0, request |-> None, response |-> None,
     error |-> NoError, result |-> None,
     conn |-> "none", arrived |-> <<>>, delivered |-> <<>>]

StoreValues(u) == {None} \cup {Some(r) : r \in RecordsOf(u)}

Init ==
    /\ store \in [Users -> UNION {StoreValues(u) : u \in Users}]
    /\ \A u \in Users : store[u] \in StoreValues(u)
    /\ call = [c \in Calls |-> IdleCall]

\* the credential table is written by its owner, outside this service
StoreWrite(u, v) ==
    /\ v \in StoreValues(u)
    /\ v # store[u]
    /\ store' = [store EXCEPT ![u] = v]
    /\ UNCHANGED call

\* a caller invokes a public method (nothing runs until it is awaited)
Invoke(c, op, u, a) ==
    /\ call[c].pc = "idle"
    /\ a \in ArgsOf(op)
    /\ call' = [call EXCEPT ![c] = [@ EXCEPT !.pc = "started", !.op = op,
                                              !.user = u, !.args = a]]
    /\ UNCHANGED store

(***************************************************************************)
(* _get_user_plugin_key                                                    *)
(***************************************************************************)
\* a lookup that reuses the row an earlier call of this user resolved
KeyRecordCached(c) ==
    LET prior == {d \in Calls : /\ d # c
                                /\ call[d].user = call[c].user
                                /\ call[d].looked
                                /\ call[d].key_record # None}
    IN  IF prior # {} THEN call[CHOOSE d \in prior : TRUE].key_record
        ELSE get_by_user_id(call[c].user)

\* a lookup that ignores whose key is asked for
KeyRecordOfAnyUser(c) ==
    LET have == {u \in Users : get_by_user_id(u) # None}
    IN  IF have # {} THEN get_by_user_id(CHOOSE u \in have : \A w \in have : u <= w)
        ELSE None

\* key_record = await self.plugin_api_key_repo.get_by_user_id(user_id)
KeyRecordFor(c) == get_by_user_id(call[c].user)

\* a check that forgets the active flag
NotConfiguredMissingOnly(key_record) == key_record = None

\* if not key_record or not key_record.is_active
NotConfigured(key_record) == key_record = None \/ ~key_record[1].is_active

GetUserPluginKey(c) ==
    /\ call[c].pc = "started"
    /\ LET key_record == KeyRecordFor(c)
       IN  IF NotConfigured(key_record)
           THEN call' = [call EXCEPT ![c] = [@ EXCEPT !.pc = "failed", !.looked = TRUE,
                                                      !.key_record = key_record,
                                                      !.error = ValueError]]
           ELSE call' = [call EXCEPT ![c] = [@ EXCEPT !.pc = "resolved", !.looked = TRUE,
                                                      !.key_record = key_record,
                                                      !.api_key =
                                                          decrypt_api_key(key_record[1].api_key)]]
    /\ UNCHANGED store

(***************************************************************************)
(* _proxy_request                                                          *)
(***************************************************************************)
\* url, headers and the arguments of client.request / client.stream
Request(c) ==
    [method |-> Method(call[c].op),
     url |-> base_url \o Path(call[c].op),
     authorization |-> "Bearer " \o call[c].api_key,
     json |-> JsonData(call[c].op),
     params |-> Params(call[c].op, call[c].args.limit, call[c].args.offset,
                       call[c].args.start_date, call[c].args.end_date)]

\* response = await client.request(...): the request goes out
SendRequest(c) ==
    /\ call[c].pc = "resolved"
    /\ call[c].op \in RequestOperations
    /\ call' = [call EXCEPT ![c] = [@ EXCEPT !.pc = "awaiting", !.nreq = @ + 1,
                                              !.request = Some(Request(c))]]
    /\ UNCHANGED store

\* a status check that was left out
raise_for_status_skipped(status) == FALSE

\* response.raise_for_status() of _proxy_request
raise_for_status(status) == ~is_success(status)

\* a method that answers from the class constant instead of the upstream
ReturnedFromConstant(op, doc) ==
    IF op = "get_models" THEN << <<"data", SUPPORTED_MODELS>> >> ELSE doc

\* return await self._proxy_request(...): the document is handed on as it is
Returned(op, doc) == doc

\* a failed request that is sent again
RetryAfterError(kind) == IF kind = "TransportError" THEN "resolved" ELSE "failed"

\* no except clause: the exception leaves _proxy_request
AfterError(kind) == "failed"

\* the response arrives: raise_for_status(), then response.json()
Respond(c, status, body) ==
    /\ call[c].pc = "awaiting"
    /\ LET response == [status |-> status, body |-> body]
       IN  call' = [call EXCEPT ![c] =
             IF raise_for_status(status)
             THEN [@ EXCEPT !.pc = AfterError("HTTPStatusError"),
                            !.response = Some(response),
                            !.error = HTTPStatusError(response)]
             ELSE IF json(body) = None
             THEN [@ EXCEPT !.pc = AfterError("JSONDecodeError"),
                            !.response = Some(response),
                            !.error = JSONDecodeError]
             ELSE [@ EXCEPT !.pc = "done", !.response = Some(response),
                            !.result = Some(Returned(call[c].op, json(body)[1]))]]
    /\ UNCHANGED store

\* client.request raises: connect error, timeout after 300 s, reset
RequestFails(c) ==
    /\ call[c].pc = "awaiting"
    /\ call' = [call EXCEPT ![c] = [@ EXCEPT !.pc = AfterError("TransportError"),
                                              !.error = TransportError]]
    /\ UNCHANGED store

(***************************************************************************)
(* _proxy_stream_request and chat_completions_stream: two nested async     *)
(* generators.  The caller's iteration drives the outer one, whose         *)
(* "async for" drives the inner one, which holds the client and the        *)
(* response open in its "async with" blocks.                               *)
(***************************************************************************)
\* async with client.stream(...): the request goes out, the connection opens
OpenStream(c) ==
    /\ call[c].pc = "resolved"
    /\ call[c].op \in StreamOperations
    /\ call' = [call EXCEPT ![c] = [@ EXCEPT !.pc = "stream_awaiting", !.nreq = @ + 1,
                                              !.request = Some(Request(c)),
                                              !.conn = "open"]]
    /\ UNCHANGED store

\* a stream whose status is never checked
stream_raise_for_status_skipped(status) == FALSE

\* response.raise_for_status() of _proxy_stream_request
stream_raise_for_status(status) == ~is_success(status)

\* the response head arrives (the body is not read yet); a raise leaves both
\* "async with" blocks, which closes the response and the client
StreamResponse(c, status) ==
    /\ call[c].pc = "stream_awaiting"
    /\ LET response == [status |-> status, body |-> ""]
       IN  call' = [call EXCEPT ![c] =
             IF stream_raise_for_status(status)
             THEN [@ EXCEPT !.pc = "failed", !.response = Some(response),
                            !.error = HTTPStatusError(response), !.conn = "closed"]
             ELSE [@ EXCEPT !.pc = "streaming", !.response = Some(response)]]
    /\ UNCHANGED store

\* client.stream raises before a response head: the blocks are left
StreamConnectFails(c) ==
    /\ call[c].pc = "stream_awaiting"
    /\ call' = [call EXCEPT ![c] = [@ EXCEPT !.pc = "failed", !.error = TransportError,
                                              !.conn = "closed"]]
    /\ UNCHANGED store

\* async for chunk in response.aiter_bytes(): yield chunk   (inner generator)
InnerYield(c, chunk) ==
    /\ call[c].pc = "streaming"
    /\ Len(call[c].arrived) < MaxChunks
    /\ call' = [call EXCEPT ![c] = [@ EXCEPT !.pc = "relay",
                                              !.arrived = Append(@, chunk)]]
    /\ UNCHANGED store

\* a relay that hands a chunk on twice
YieldedTwice(delivered, chunk) == delivered \o <<chunk, chunk>>

\* async for chunk in self._proxy_stream_request(...): yield chunk
Yielded(delivered, chunk) == Append(delivered, chunk)

\* the outer generator yields the chunk it received to the caller
OuterYield(c) ==
    /\ call[c].pc = "relay"
    /\ call' = [call EXCEPT ![c] =
                  [@ EXCEPT !.pc = "yielded",
                            !.delivered = Yielded(@, call[c].arrived[Len(call[c].arrived)])]]
    /\ UNCHANGED store

\* the caller asks for the next chunk: both generators resume
ConsumerNext(c) ==
    /\ call[c].pc = "yielded"
    /\ call' = [call EXCEPT ![c] = [@ EXCEPT !.pc = "streaming"]]
    /\ UNCHANGED store

\* aiter_bytes() is exhausted: the inner generator leaves its "async with"
\* blocks and ends, the outer "async for" ends, the caller sees the end
StreamEnds(c) ==
    /\ call[c].pc = "streaming"
    /\ call' = [call EXCEPT ![c] = [@ EXCEPT !.pc = "done", !.conn = "closed"]]
    /\ UNCHANGED store

\* an exception is raised at the await inside aiter_bytes() (a read error,
\* a timeout, the caller's task being cancelled): it leaves the blocks
StreamFails(c, err) ==
    /\ call[c].pc = "streaming"
    /\ call' = [call EXCEPT ![c] = [@ EXCEPT !.pc = "failed", !.error = err,
                                              !.conn = "closed"]]
    /\ UNCHANGED store

\* the caller stops iterating (break, return, an exception of its own) while
\* both generators are suspended at their yield: no code of the service runs
ConsumerAbandons(c) ==
    /\ call[c].pc = "yielded"
    /\ call' = [call EXCEPT ![c] = [@ EXCEPT !.pc = "abandoned"]]
    /\ UNCHANGED store

\* the outer generator is closed (aclose() by the caller or by the event
\* loop's finalizer): GeneratorExit at its yield; its "async for" does not
\* close the inner generator
OuterClosed(c) ==
    /\ call[c].pc = "abandoned"
    /\ call' = [call EXCEPT ![c] = [@ EXCEPT !.pc = "outer_closed"]]
    /\ UNCHANGED store

\* the event loop's finalizer closes the unreferenced inner generator:
\* GeneratorExit at its yield leaves the "async with" blocks
InnerClosed(c) ==
    /\ call[c].pc = "outer_closed"
    /\ call' = [call EXCEPT ![c] = [@ EXCEPT !.pc = "finalized", !.conn = "closed"]]
    /\ UNCHANGED store

(***************************************************************************)
(* Specifications.                                                         *)
(***************************************************************************)
\* Spec: one caller, the whole catalogue, every argument and response
Next ==
    \/ \E u \in Users : \E v \in StoreValues(u) : StoreWrite(u, v)
    \/ \E c \in SingleCall, op \in Operations, u \in Users :
           \E a \in ArgsOf(op) : Invoke(c, op, u, a)
    \/ \E c \in SingleCall : GetUserPluginKey(c)
    \/ \E c \in SingleCall : SendRequest(c)
    \/ \E c \in SingleCall, status \in Statuses, body \in Bodies : Respond(c, status, body)
    \/ \E c \in SingleCall : RequestFails(c)
    \/ \E c \in SingleCall : OpenStream(c)
    \/ \E c \in SingleCall, status \in Statuses : StreamResponse(c, status)
    \/ \E c \in SingleCall : StreamConnectFails(c)
    \/ \E c \in SingleCall, chunk \in Chunks : InnerYield(c, chunk)
    \/ \E c \in SingleCall : OuterYield(c)
    \/ \E c \in SingleCall : ConsumerNext(c)
    \/ \E c \in SingleCall : StreamEnds(c)
    \/ \E c \in SingleCall, err \in {TransportError, CancelledError} : StreamFails(c, err)
    \/ \E c \in SingleCall : ConsumerAbandons(c)
    \/ \E c \in SingleCall : OuterClosed(c)
    \/ \E c \in SingleCall : InnerClosed(c)

Spec == Init /\ [][Next]_vars

\* SpecCalls: overlapping calls of _proxy_request by the same or by
\* different users, while the credential table changes
OverlapOperations == {"get_account", "get_models"}
OverlapStatuses == {200, 404}
OverlapBodies == {"{\"error\":\"not found\"}"}

NextCalls ==
    \/ \E u \in Users : \E v \in StoreValues(u) : StoreWrite(u, v)
    \/ \E c \in Calls, op \in OverlapOperations, u \in Users :
           \E a \in ArgsOf(op) : Invoke(c, op, u, a)
    \/ \E c \in Calls : GetUserPluginKey(c)
    \/ \E c \in Calls : SendRequest(c)
    \/ \E c \in Calls, status \in OverlapStatuses, body \in OverlapBodies :
           Respond(c, status, body)
    \/ \E c \in Calls : RequestFails(c)

SpecCalls == Init /\ [][NextCalls]_vars

(***************************************************************************)
(* Properties.                                                             *)
(***************************************************************************)
Range(f) == {f[i] : i \in DOMAIN f}
IsPrefix(s, t) == Len(s) <= Len(t) /\ \A i \in 1..Len(s) : s[i] = t[i]

\* C1: a call whose lookup found no row, or an inactive row, has failed with
\* the ValueError of _get_user_plugin_key and has issued no outbound request:
\* nothing was sent, no connection was opened, no chunk and no document was
\* handed to the caller; and no call issues a request before its lookup.
NotConfiguredBeforeAnyRequest ==
    \A c \in Calls :
        /\ ~call[c].looked => call[c].nreq = 0 /\ call[c].conn = "none"
        /\ (call[c].looked /\ (call[c].key_record = None
                               \/ ~call[c].key_record[1].is_active))
           => /\ call[c].pc = "failed"
              /\ call[c].error = ValueError
              /\ call[c].nreq = 0
              /\ call[c].request = None
              /\ call[c].conn = "none"
              /\ call[c].arrived = <<>>
              /\ call[c].delivered = <<>>
              /\ call[c].result = None

\* an inactive row made the streaming chat completion fail
NotConfiguredWitness ==
    \E c \in Calls :
        /\ call[c].op = "chat_completions_stream"
        /\ call[c].key_record # None
        /\ call[c].error = ValueError
        /\ call[c].pc = "failed"

\* C2: once the chunk sequence of a call has ended, failed or been abandoned
\* by its consumer, the call's connection is not open.
ConnectionClosedOnEveryExit ==
    \A c \in Calls :
        call[c].pc \in {"done", "failed", "abandoned", "outer_closed", "finalized"}
            => call[c].conn # "open"

\* C3: a single-response call that received a non-success status has failed
\* with HTTPStatusError carrying that status and that body, and returned no
\* document.
NonSuccessIsUpstreamError ==
    \A c \in Calls :
        (/\ call[c].op \in RequestOperations
         /\ call[c].response # None
         /\ ~is_success(call[c].response[1].status))
        => /\ call[c].pc = "failed"
           /\ call[c].error.kind = "HTTPStatusError"
           /\ call[c].error.status = call[c].response[1].status
           /\ call[c].error.body = call[c].response[1].body
           /\ call[c].result = None

\* get_account answered with 404 and {"error":"not found"}
NonSuccessWitness ==
    \E c \in Calls :
        /\ call[c].op = "get_account"
        /\ call[c].response = Some([status |-> 404, body |-> "{\"error\":\"not found\"}"])
        /\ call[c].error.kind = "HTTPStatusError"

\* C4: a streaming call whose response head had a non-success status has
\* failed with HTTPStatusError of that status, and neither generator has
\* yielded a chunk.
StreamNonSuccessYieldsNothing ==
    \A c \in Calls :
        (/\ call[c].op \in StreamOperations
         /\ call[c].response # None
         /\ ~is_success(call[c].response[1].status))
        => /\ call[c].pc = "failed"
           /\ call[c].error.kind = "HTTPStatusError"
           /\ call[c].error.status = call[c].response[1].status
           /\ call[c].arrived = <<>>
           /\ call[c].delivered = <<>>

\* the streaming chat completion answered with 500
StreamNonSuccessWitness ==
    \E c \in Calls :
        /\ call[c].op = "chat_completions_stream"
        /\ call[c].response # None
        /\ call[c].response[1].status = 500
        /\ call[c].pc = "failed"

\* C5: what the consumer of the streaming chat completion has received is
\* always the chunks the upstream response produced so far, in order, less at
\* most the one in transit between the two generators; when it sees the end
\* it has received exactly the whole sequence.
ChunksRelayedExactly ==
    \A c \in Calls :
        /\ IsPrefix(call[c].delivered, call[c].arrived)
        /\ Len(call[c].arrived) - Len(call[c].delivered)
               = (IF call[c].pc = "relay" THEN 1 ELSE 0)
        /\ call[c].pc = "done" /\ call[c].op \in StreamOperations
               => call[c].delivered = call[c].arrived

\* three chunks were streamed and the consumer saw them and then the end
ChunksRelayedWitness ==
    \E c \in Calls :
        /\ call[c].pc = "done"
        /\ call[c].arrived = <<"a", "b", "a">>
        /\ call[c].delivered = <<"a", "b", "a">>

\* C8: a single-response call issues at most one outbound request, and one
\* whose token resolved and which is past the send (waiting, returned or
\* failed, whatever the failure) has issued exactly one.
ExactlyOneRequest ==
    \A c \in Calls :
        call[c].op \in RequestOperations
        => /\ call[c].nreq <= 1
           /\ (call[c].api_key # "" /\ call[c].pc \in {"awaiting", "done", "failed"})
              => call[c].nreq = 1

\* a call that failed in transport after its one request
ExactlyOneRequestWitness ==
    \E c \in Calls :
        /\ call[c].op \in RequestOperations
        /\ call[c].pc = "failed"
        /\ call[c].error = TransportError
        /\ call[c].nreq = 1

\* C9 as stated: the query of the consumption-list and consumption-stats
\* requests holds exactly the arguments the caller passed (a value other
\* than None), each with its value, and no other key.
QueryHoldsExactlySuppliedKeys ==
    \A c \in Calls :
        (call[c].op \in {"get_account_consumption", "get_user_consumption_stats"}
         /\ call[c].request # None)
        => \A k \in QueryKeys : call[c].request[1].params[k] = call[c].args[k]

\* C9 as amended: limit and offset are in the query exactly when they are
\* not None (0 included), with their value; start_date and end_date exactly
\* when they are a non-empty string, with their value: an empty string is
\* left out like None.
QueryHoldsSuppliedNonEmptyKeys ==
    \A c \in Calls :
        (call[c].op \in {"get_account_consumption", "get_user_consumption_stats"}
         /\ call[c].request # None)
        => \A k \in QueryKeys :
               call[c].request[1].params[k] =
                   IF k \in {"start_date", "end_date"} /\ call[c].args[k] = Some("")
                   THEN None
                   ELSE call[c].args[k]

\* the consumption list asked with limit=10 alone: the query is limit=10
QueryWitness ==
    \E c \in Calls :
        /\ call[c].op = "get_account_consumption"
        /\ call[c].request # None
        /\ call[c].args = [limit |-> Some(10), offset |-> None,
                           start_date |-> None, end_date |-> None]
        /\ call[c].request[1].params = [NoQuery EXCEPT !["limit"] = Some(10)]

\* the model identifiers a document lists
Identifiers(doc) == UNION {Range(member[2]) : member \in Range(doc)}

\* C10 as stated: a successful get_models returns the five identifiers of
\* SUPPORTED_MODELS.
GetModelsReturnsCatalogue ==
    \A c \in Calls :
        (call[c].op = "get_models" /\ call[c].pc = "done")
        => Identifiers(call[c].result[1]) = Range(SUPPORTED_MODELS)

\* C10 as amended: a successful get_models returns the document the upstream
\* answered GET /v1/kiro/models with, unchanged.
GetModelsReturnsUpstreamDocument ==
    \A c \in Calls :
        (call[c].op = "get_models" /\ call[c].pc = "done")
        => /\ call[c].request[1].method = "GET"
           /\ call[c].request[1].url = base_url \o "/v1/kiro/models"
           /\ call[c].result = json(call[c].response[1].body)

\* get_models returned an upstream document that lists another model
GetModelsWitness ==
    \E c \in Calls :
        /\ call[c].op = "get_models"
        /\ call[c].pc = "done"
        /\ Identifiers(call[c].result[1]) = {"kiro-x"}

\* C6: every request carries the bearer token decrypted from the row of the
\* call's own user, so two calls of different users never carry the same
\* token; a step of one call changes nothing of another call; and a call
\* that is not finished can always take its next step, whatever the other
\* call's state or failure.
OwnToken ==
    \A c \in Calls :
        call[c].request # None
        => /\ call[c].key_record # None
           /\ call[c].key_record[1].user_id = call[c].user
           /\ call[c].request[1].authorization
                  = "Bearer " \o decrypt_api_key(call[c].key_record[1].api_key)
           /\ \A d \in Calls :
                  (call[d].request # None /\ call[d].user # call[c].user)
                  => call[d].request[1].authorization # call[c].request[1].authorization

NeverBlocked ==
    \A c \in Calls :
        /\ call[c].pc = "started" => ENABLED GetUserPluginKey(c)
        /\ call[c].pc = "resolved" => ENABLED SendRequest(c)
        /\ call[c].pc = "awaiting" =>
               /\ ENABLED RequestFails(c)
               /\ \A status \in OverlapStatuses, body \in OverlapBodies :
                      ENABLED Respond(c, status, body)

Isolated ==
    \A c \in Calls : call'[c] # call[c] => \A d \in Calls \ {c} : call'[d] = call[d]

CallsIndependent == []OwnToken /\ []NeverBlocked /\ [][Isolated]_vars

\* two users' calls overlap: one has failed in transport after sending its
\* token, the other is waiting for its response
CallsIndependentWitness ==
    /\ call[1].user # call[2].user
    /\ call[1].pc = "failed"
    /\ call[1].error = TransportError
    /\ call[1].request # None
    /\ call[2].pc = "awaiting"

\* C7: the step that resolves a call's token reads the credential table as
\* it is at that step: with no active row the call fails with ValueError
\* without a request, otherwise its token is the decryption of the stored
\* key, and that token is the one its request carries.
ResolvesFromStore ==
    \A c \in Calls :
        (call[c].pc = "started" /\ call'[c].pc # "started")
        => IF store[call[c].user] = None \/ ~store[call[c].user][1].is_active
           THEN /\ call'[c].pc = "failed"
                /\ call'[c].error = ValueError
                /\ call'[c].nreq = 0
           ELSE /\ call'[c].pc = "resolved"
                /\ call'[c].api_key = decrypt_api_key(store[call[c].user][1].api_key)

SendsResolvedToken ==
    \A c \in Calls :
        call[c].request # None
        => call[c].request[1].authorization = "Bearer " \o call[c].api_key

NeverCached == [][ResolvesFromStore]_vars /\ []SendsResolvedToken

\* a call succeeded for a user, and a later call of the same user found the
\* row gone or inactive and failed
NeverCachedWitness ==
    /\ call[1].user = call[2].user
    /\ call[1].pc = "done"
    /\ call[2].pc = "failed"
    /\ call[2].error = ValueError

====
